---------------------------- MODULE Spec2Model ----------------------------
(***************************************************************************)
(* A model of dev.py: the seed registry and its dependency resolver        *)
(* (update_seeds), the staleness cache (update_seed), the environment      *)
(* store (new / tmp / enter / exec / reset / purge) and the effect of the  *)
(* sandbox launcher (run) on the two directory roots.                      *)
(*                                                                         *)
(* One command-line invocation is one action.  The two directory roots     *)
(* WORK_DIRS and HOME_DIRS are the sets of entry names they hold, the      *)
(* freshness markers are the mtimes of HOME_DIRS/<name>/.UPDATED, and an   *)
(* environment name is a single path component.  What an invocation did is *)
(* kept in `last` (its arguments, the directories before it, its outcome   *)
(* and the ordered log of its filesystem calls and launches).              *)
(***************************************************************************)
EXTENDS Integers, Sequences, FiniteSets, TLC

VARIABLES
    SEEDS,         \* the registry: a sequence of entries, in dict order
    workDirs,      \* names of the entries of WORK_DIRS
    homeDirs,      \* names of the entries of HOME_DIRS
    UPDATED,       \* name -> mtime of HOME_DIRS/name/.UPDATED, where the file exists
    script_mtime,  \* key -> mtime of the seed's update_script
    clock,         \* time.time()
    proc,          \* the functions followed statement by statement (run, random_names, new)
    last           \* the last invocation and what it did

vars == <<SEEDS, workDirs, homeDirs, UPDATED, script_mtime, clock, proc, last>>

-----------------------------------------------------------------------------
(* Bounds of the model *)

\* the number of candidates the name generator yields to one `tmp`
NumCands == 2

\* the largest offset of the time grid the staleness cache is checked on
MaxOffset == 2

(* Program constants *)

\* 60 * 60 * 12, the cool-down of update_seed
COOLDOWN == 43200

-----------------------------------------------------------------------------
(* Strings and small helpers *)

startswith(s, prefix) ==
    /\ Len(s) >= Len(prefix)
    /\ SubSeq(s, 1, Len(prefix)) = prefix

\* f"seed-{key}"
seed_name(key) == "seed-" \o key

\* f"tmp-{name}"
tmp_name(word) == "tmp-" \o word

\* SCRIPT_PATH / "dev-init.sh"
DEV_INIT == "dev-init.sh"

\* SCRIPT_PATH / "<key>-update.sh"
update_script(key) == key \o "-update.sh"

\* Python's falsy defaults of run(): init=False, exec=False, seeds=[]
NO_INIT == ""
NO_EXEC == <<>>
NO_SEEDS == <<>>

Range(q) == { q[i] : i \in 1..Len(q) }

\* the keys that may be registered, in the order the registry lists them
KeyOrder == <<"a", "b", "c">>

\* a key no registry registers (the target of a dangling dependency)
UNKNOWN == "zz"

\* a set of keys as a list, in registry order
ListOf(S) ==
    LET pick[i \in 0..Len(KeyOrder)] ==
            IF i = 0 THEN <<>>
            ELSE IF KeyOrder[i] \in S THEN Append(pick[i - 1], KeyOrder[i])
                 ELSE pick[i - 1]
    IN  pick[Len(KeyOrder)]

-----------------------------------------------------------------------------
(* The registry *)

\* SEEDS.keys(), in dict order
keys(reg) == [ i \in 1..Len(reg) |-> reg[i].key ]

\* SEEDS[key]
entry(reg, key) == reg[CHOOSE i \in 1..Len(reg) : reg[i].key = key]

\* seed.get("depends", [])
depends(reg, key) == entry(reg, key).depends

\* "update_script" in seed
has_update_script(reg, key) == entry(reg, key).update_script

\* DEFAULT_SEEDS
DEFAULT_SEEDS == keys(SEEDS)

-----------------------------------------------------------------------------
(* The state an invocation works on, and the log of what it does.          *)
(*   s.work, s.home   the two roots                                        *)
(*   s.UPDATED        the freshness markers                                *)
(*   s.ev             the ordered log of calls                             *)
(*   s.err            "" while running, else the exception or exit        *)
(*   s.nrun           the number of launches made so far                   *)
(*   s.stuck          the keys named by the unsatisfiable-dependency error *)
(* The inputs the world supplies to one invocation:                        *)
(*   in.failAt        which launch (1st, 2nd, ...) exits non-zero; 0: none *)
(*   in.touch         the keys whose updater touches its .UPDATED marker   *)
(*   in.now           time.time()                                          *)
(***************************************************************************)

Event(kind, root, name) ==
    [ev |-> kind, root |-> root, name |-> name, seeds |-> NO_SEEDS,
     init |-> NO_INIT, exec |-> NO_EXEC, rc |-> 0, tar |-> FALSE,
     reaped |-> FALSE]

Log(s, e) == [s EXCEPT !.ev = Append(@, e)]

Raise(s, exc) == [s EXCEPT !.err = exc]

\* mutant: mkdir(parents=True, exist_ok=True)
mkdir_work_exist_ok(s, name) ==
    Log([s EXCEPT !.work = @ \cup {name}], Event("mkdir", "work", name))

\* Path.mkdir(parents=True): raises FileExistsError when the entry exists
mkdir_work(s, name) ==
    IF name \in s.work
    THEN Raise(Log(s, Event("mkdir-failed", "work", name)), "FileExistsError")
    ELSE Log([s EXCEPT !.work = @ \cup {name}], Event("mkdir", "work", name))

\* rmtree(HOME_DIRS / name): the tree goes, and the marker file in it
rmtree_home(s, name) ==
    Log([s EXCEPT !.home = @ \ {name},
                  !.UPDATED = [n \in (DOMAIN @) \ {name} |-> @[n]]],
        Event("rmtree", "home", name))

\* rmtree(WORK_DIRS / name)
rmtree_work(s, name) ==
    Log([s EXCEPT !.work = @ \ {name}], Event("rmtree", "work", name))

-----------------------------------------------------------------------------
(* run: the sandbox launcher, as far as the stores can see it *)

\* the key whose update script `init` is, if any
updater_keys(reg, init) ==
    { k \in Range(keys(reg)) : has_update_script(reg, k) /\ init = update_script(k) }

\* host_home.mkdir(parents=True), FileExistsError ignored
mkdir_home(s, name) ==
    IF name \in s.home THEN s
    ELSE Log([s EXCEPT !.home = @ \cup {name}], Event("mkdir", "home", name))

\* an init script that is an updater may touch .UPDATED in the home it runs in
touch_marker(s, in, reg, name, init) ==
    IF updater_keys(reg, init) \cap in.touch = {} THEN s
    ELSE [s EXCEPT !.UPDATED = [m \in (DOMAIN @) \cup {name} |->
                                    IF m = name THEN in.now ELSE @[m]]]

\* if bwrap.wait() != 0: raise subprocess.CalledProcessError
check_returncode(s, rc) ==
    IF rc # 0 THEN Raise(s, "CalledProcessError") ELSE s

\* the archiver (when seeds were given) and bwrap are started, bwrap is waited
\* for; the archiver is waited for only when bwrap exited 0
launch(s, in, reg, name, seeds, init, exec) ==
    LET n == s.nrun + 1
        rc == IF n = in.failAt THEN 1 ELSE 0
        tar == Len(seeds) > 0
        e == [ev |-> "run", root |-> "", name |-> name, seeds |-> seeds,
              init |-> init, exec |-> exec, rc |-> rc, tar |-> tar,
              reaped |-> tar /\ rc = 0]
    IN  \* for seed in seeds: spec = SEEDS[seed]
        IF \E i \in 1..Len(seeds) : seeds[i] \notin Range(keys(reg))
        THEN Raise(s, "KeyError")
        ELSE check_returncode(
                 Log([touch_marker(s, in, reg, name, init) EXCEPT !.nrun = n], e),
                 rc)

run(s, in, reg, name, seeds, init, exec) ==
    launch(mkdir_home(s, name), in, reg, name, seeds, init, exec)

\* a statement that follows a call is reached only when the call returned:
\* an exception (or sys.exit) on its way out skips it
then_run(s, in, reg, name, seeds, init, exec) ==
    IF s.err # "" THEN s ELSE run(s, in, reg, name, seeds, init, exec)

then_mkdir_work(s, name) == IF s.err # "" THEN s ELSE mkdir_work(s, name)

-----------------------------------------------------------------------------
(* update_seed: the staleness cache *)

\* (HOME_DIRS / name / ".UPDATED").stat().st_mtime, 0 on FileNotFoundError
marker_mtime(s, name) == IF name \in DOMAIN s.UPDATED THEN s.UPDATED[name] ELSE 0

\* mutant: both comparisons inclusive
fresh_inclusive(u, updated, now) == u <= updated /\ now - updated <= COOLDOWN

\* the test of line 144: the refresh is skipped
fresh(u, updated, now) == u < updated /\ now - updated < COOLDOWN

\* if not work_dir.exists(): work_dir.mkdir(parents=True)
ensure_work(s, name) == IF name \in s.work THEN s ELSE mkdir_work(s, name)

\* mutant: the updater is launched before the bootstrap
refresh_updater_first(s, in, reg, mt, key) ==
    IF fresh(mt[key], marker_mtime(s, seed_name(key)), in.now) THEN s
    ELSE then_run(run(s, in, reg, seed_name(key), NO_SEEDS, update_script(key),
                      NO_EXEC),
                  in, reg, seed_name(key), ListOf(depends(reg, key)), DEV_INIT,
                  NO_EXEC)

\* lines 140-148: the marker is read, and unless the seed is fresh the two
\* launches follow
refresh(s, in, reg, mt, key) ==
    IF fresh(mt[key], marker_mtime(s, seed_name(key)), in.now) THEN s
    ELSE then_run(run(s, in, reg, seed_name(key), ListOf(depends(reg, key)),
                      DEV_INIT, NO_EXEC),
                  in, reg, seed_name(key), NO_SEEDS, update_script(key), NO_EXEC)

update_seed(s, in, reg, mt, key) ==
    IF ~has_update_script(reg, key) THEN Log(s, Event("update_seed", "", key))
    ELSE refresh(ensure_work(Log(s, Event("update_seed", "", key)), seed_name(key)),
                 in, reg, mt, key)

-----------------------------------------------------------------------------
(* update_seeds: the dependency resolver *)

\* mutant: a seed is refreshed without looking at its depends
ready_ignoring_depends(reg, done, key) == TRUE

\* done.issuperset(seed.get("depends", []))
ready(reg, done, key) == depends(reg, key) \subseteq done

\* len(later) == len(todo): the round ordered nothing
no_progress(later, todo) == Len(later) = Len(todo)

\* mutant: the error names the whole registry
unsatisfiable_for_registry(reg, todo) == keys(reg)

\* the keys the error message names: list(todo)
unsatisfiable_for(reg, todo) == todo

UNSATISFIABLE == "RuntimeError: Seed dependencies are unsatisfiable"

\* one pass of `for key in todo`: r = [s, done, later]
RECURSIVE for_key(_, _, _, _, _, _)
for_key(r, in, reg, mt, todo, i) ==
    IF i > Len(todo) \/ r.s.err # "" THEN r
    ELSE IF ready(reg, r.done, todo[i])
         THEN for_key([r EXCEPT !.s = update_seed(@, in, reg, mt, todo[i]),
                                !.done = @ \cup {todo[i]}],
                      in, reg, mt, todo, i + 1)
         ELSE for_key([r EXCEPT !.later = Append(@, todo[i])],
                      in, reg, mt, todo, i + 1)

\* `while len(todo) > 0`; end_of_round is what follows the for loop
RECURSIVE while_todo(_, _, _, _, _, _)
RECURSIVE end_of_round(_, _, _, _, _)
while_todo(s, in, reg, mt, todo, done) ==
    IF Len(todo) = 0 THEN Log(s, Event("update_seeds returned", "", ""))
    ELSE end_of_round(for_key([s |-> s, done |-> done, later |-> <<>>],
                              in, reg, mt, todo, 1),
                      in, reg, mt, todo)

end_of_round(r, in, reg, mt, todo) ==
    IF r.s.err # "" THEN r.s
    ELSE IF no_progress(r.later, todo)
         THEN [Raise(r.s, UNSATISFIABLE) EXCEPT !.stuck = unsatisfiable_for(reg, todo)]
         ELSE while_todo(r.s, in, reg, mt, r.later, r.done)

update_seeds(s, in, reg, mt) ==
    while_todo(Log(s, Event("update_seeds", "", "")), in, reg, mt, keys(reg), {})

-----------------------------------------------------------------------------
(* The environment store *)

\* sys.exit(1)
EXIT1 == "exit 1"

\* mutant: the work directory is made before the seeds are refreshed
new_environment_mkdir_first(s, in, reg, mt, name, seeds) ==
    IF name \in s.work \/ name \in s.home THEN Raise(s, EXIT1)
    ELSE then_run(update_seeds(mkdir_work(s, name), in, reg, mt),
                  in, reg, name, seeds, DEV_INIT, NO_EXEC)

\* mutant: only the work directory is looked at
new_environment_work_only(s, in, reg, mt, name, seeds) ==
    IF name \in s.work THEN Raise(s, EXIT1)
    ELSE then_run(then_mkdir_work(update_seeds(s, in, reg, mt), name),
                  in, reg, name, seeds, DEV_INIT, NO_EXEC)

new_environment(s, in, reg, mt, name, seeds) ==
    IF name \in s.work \/ name \in s.home THEN Raise(s, EXIT1)
    ELSE then_run(then_mkdir_work(update_seeds(s, in, reg, mt), name),
                  in, reg, name, seeds, DEV_INIT, NO_EXEC)

\* mutant: the shell is launched without looking for the work directory
enter_environment_unchecked(s, in, reg, name) ==
    run(s, in, reg, name, NO_SEEDS, NO_INIT, NO_EXEC)

enter_environment(s, in, reg, name) ==
    IF name \notin s.work THEN Raise(s, EXIT1)
    ELSE run(s, in, reg, name, NO_SEEDS, NO_INIT, NO_EXEC)

\* lines 614-615: `if args.enter: enter_environment(name=args.name)`
then_enter(s, in, reg, enter, name) ==
    IF s.err # "" \/ ~enter THEN s ELSE enter_environment(s, in, reg, name)

exec_environment(s, in, reg, name, command, args) ==
    IF name \notin s.work THEN Raise(s, EXIT1)
    ELSE run(s, in, reg, name, NO_SEEDS, NO_INIT, <<command>> \o args)

\* sorted(), on the names the model uses
NameOrder ==
    << seed_name("a"), seed_name("b"), seed_name("c"), tmp_name("p"),
       tmp_name("q"), "x" >>

sorted(S) == SelectSeq(NameOrder, LAMBDA n : n \in S)

\* print(name) for each name, in order
print_names(s, names) ==
    [s EXCEPT !.ev = @ \o [ i \in 1..Len(names) |-> Event("print", "", names[i]) ]]

\* the keys of envs: setdefault(dir.name) over WORK_DIRS, then over HOME_DIRS
\* (a missing root iterates as empty; du changes the columns, not the keys)
envs(s) == s.work \cup s.home

\* "names" returns after the work root; json (sort_keys) and the table
\* (sorted(envs)) print the keys of envs
list_environments(s, format) ==
    IF format = "names" THEN print_names(s, sorted(s.work))
    ELSE print_names(s, sorted(envs(s)))

NAME_ERROR == "RuntimeError: failed to generate random environment name"

\* mutant: a candidate is rejected only when its work directory exists
RECURSIVE create_enter_tmp_environment_work_only(_, _, _, _, _, _, _)
create_enter_tmp_environment_work_only(s, in, reg, mt, seeds, cands, i) ==
    IF i > Len(cands)
    THEN Raise(s, NAME_ERROR)
    ELSE IF tmp_name(cands[i]) \in s.work
         THEN create_enter_tmp_environment_work_only(s, in, reg, mt, seeds, cands, i + 1)
         ELSE then_run(
                  then_run(then_mkdir_work(update_seeds(s, in, reg, mt),
                                           tmp_name(cands[i])),
                           in, reg, tmp_name(cands[i]), seeds, DEV_INIT, NO_EXEC),
                  in, reg, tmp_name(cands[i]), NO_SEEDS, NO_INIT, NO_EXEC)

\* `for name in random_names()`, over the candidates the generator yields
RECURSIVE create_enter_tmp_environment(_, _, _, _, _, _, _)
create_enter_tmp_environment(s, in, reg, mt, seeds, cands, i) ==
    IF i > Len(cands)
    THEN Raise(s, NAME_ERROR)
    ELSE IF tmp_name(cands[i]) \in s.work \/ tmp_name(cands[i]) \in s.home
         THEN create_enter_tmp_environment(s, in, reg, mt, seeds, cands, i + 1)
         ELSE then_run(
                  then_run(then_mkdir_work(update_seeds(s, in, reg, mt),
                                           tmp_name(cands[i])),
                           in, reg, tmp_name(cands[i]), seeds, DEV_INIT, NO_EXEC),
                  in, reg, tmp_name(cands[i]), NO_SEEDS, NO_INIT, NO_EXEC)

\* if host_work.exists(): rmtree(host_work)
rmtree_work_if_exists(s, name) ==
    IF name \in s.work THEN rmtree_work(s, name) ELSE s

\* if host_home.exists(): rmtree(host_home)
rmtree_home_if_exists(s, name) ==
    IF name \in s.home THEN rmtree_home(s, name) ELSE s

\* mutant: nothing to purge when the work directory is missing
purge_environment_work_first(s, name) ==
    IF name \notin s.work
    THEN Log(s, Event("warning", "", name))
    ELSE rmtree_home_if_exists(rmtree_work(s, name), name)

purge_environment(s, name) ==
    IF name \notin s.work /\ name \notin s.home
    THEN Log(s, Event("warning", "", name))
    ELSE rmtree_home_if_exists(rmtree_work_if_exists(s, name), name)

\* lines 391-393: `if not args.clean` reads the module global args
repopulate(s, in, reg, mt, args, name, seeds) ==
    IF args.clean THEN s
    ELSE then_run(update_seeds(s, in, reg, mt),
                  in, reg, name, seeds, DEV_INIT, NO_EXEC)

\* mutant: the work directory is deleted with the home directory
reset_environment_deleting_work(s, in, reg, mt, args, name, seeds, clean) ==
    IF startswith(name, "seed-") THEN Raise(s, EXIT1)
    ELSE IF name \notin s.work THEN Raise(s, EXIT1)
    ELSE repopulate(rmtree_home_if_exists(rmtree_work(s, name), name),
                    in, reg, mt, args, name, seeds)

\* mutant: seed- names are reset like any other
reset_environment_accepting_seeds(s, in, reg, mt, args, name, seeds, clean) ==
    IF name \notin s.work THEN Raise(s, EXIT1)
    ELSE repopulate(rmtree_home_if_exists(s, name), in, reg, mt, args, name, seeds)

\* mutant: the home directory is repopulated whatever clean says
reset_environment_ignoring_clean(s, in, reg, mt, args, name, seeds, clean) ==
    IF startswith(name, "seed-") THEN Raise(s, EXIT1)
    ELSE IF name \notin s.work THEN Raise(s, EXIT1)
    ELSE repopulate(rmtree_home_if_exists(s, name), in, reg, mt,
                    [args EXCEPT !.clean = FALSE], name, seeds)

\* `clean` is the parameter; the body tests the module global args.clean
reset_environment(s, in, reg, mt, args, name, seeds, clean) ==
    IF startswith(name, "seed-") THEN Raise(s, EXIT1)
    ELSE IF name \notin s.work THEN Raise(s, EXIT1)
    ELSE repopulate(rmtree_home_if_exists(s, name), in, reg, mt, args, name, seeds)

-----------------------------------------------------------------------------
(* __main__: one invocation of the script with the parsed arguments `args`. *)
(* purge and reset take one name here: given several, lines 616-621 make    *)
(* the same calls one after the other and stop at the first that exits,     *)
(* which is a run of one-name invocations.                                  *)

main(s, in, reg, mt, args) ==
    IF args.command = "enter" THEN enter_environment(s, in, reg, args.name)
    ELSE IF args.command = "exec"
    THEN exec_environment(s, in, reg, args.name, args.exec, args.args)
    ELSE IF args.command = "list" THEN list_environments(s, args.format)
    ELSE IF args.command = "new"
    THEN then_enter(new_environment(s, in, reg, mt, args.name, args.seeds),
                    in, reg, args.enter, args.name)
    ELSE IF args.command = "purge" THEN purge_environment(s, args.name)
    ELSE IF args.command = "reset"
    THEN reset_environment(s, in, reg, mt, args, args.name, args.seeds, args.clean)
    ELSE IF args.command = "tmp"
    THEN create_enter_tmp_environment(s, in, reg, mt, args.seeds, args.cands, 1)
    ELSE Raise(s, "RuntimeError: unknown command")

\* the namespace parse_args returns; fields a command does not define are
\* given their neutral value
Args(command, name) ==
    [command |-> command, name |-> name, seeds |-> NO_SEEDS, clean |-> FALSE,
     enter |-> FALSE, exec |-> "", args |-> <<>>, cands |-> <<>>,
     format |-> "default"]

-----------------------------------------------------------------------------
(* The state machine *)

\* the state an invocation starts from
Begin ==
    [work |-> workDirs, home |-> homeDirs, UPDATED |-> UPDATED, ev |-> <<>>,
     err |-> "", nrun |-> 0, stuck |-> <<>>]

\* what `last` keeps of an invocation
Record(args, s) ==
    [args |-> args, status |-> s.err, ev |-> s.ev, stuck |-> s.stuck,
     work0 |-> workDirs, home0 |-> homeDirs, UPDATED0 |-> UPDATED]

NoLast == Record(Args("", ""), Begin)

\* no launch is followed step by step
NoProc == [pc |-> "none"]

\* the keys whose update script an invocation launched
launched_updaters(reg, s) ==
    { k \in Range(keys(reg)) :
        \E i \in 1..Len(s.ev) :
            s.ev[i].ev = "run" /\ s.ev[i].init = update_script(k) }

\* The invocation runs to its end: the stores and `last` are what it left;
\* the registry, the scripts and the clock are not its to change.
\* Every launch it makes exits 0 or non-zero, and every updater it runs
\* touches its marker or not: s0 is the run in which no launch fails, which
\* makes the most launches, and the inputs range over its launches.
Invoke(args) ==
    LET s0 == main(Begin, [failAt |-> 0, touch |-> {}, now |-> clock],
                   SEEDS, script_mtime, args)
    IN  \E failAt \in 0..s0.nrun, touch \in SUBSET launched_updaters(SEEDS, s0) :
            LET in == [failAt |-> failAt, touch |-> touch, now |-> clock]
                s == main(Begin, in, SEEDS, script_mtime, args)
            IN  /\ workDirs' = s.work
                /\ homeDirs' = s.home
                /\ UPDATED' = s.UPDATED
                /\ last' = Record(args, s)

\* registries of two keys
reg2(depA, updA, depB, updB) ==
    << [key |-> "a", depends |-> depA, update_script |-> updA],
       [key |-> "b", depends |-> depB, update_script |-> updB] >>

\* The shapes of the registry of the source (a seed without updater that
\* another depends on; an updater seed another depends on), and the
\* registries a wrong edit of SEEDS gives: a cycle, a dangling dependency.
Registries ==
    { reg2({}, FALSE, {"a"}, TRUE),
      reg2({}, TRUE, {"b"}, TRUE),
      reg2({"b"}, TRUE, {"a"}, TRUE) }

\* the words the name generator can yield
Words == {"p"}

\* the names a user passes
UserNames == {"x"}
TmpNames == { tmp_name(w) : w \in Words }
\* seed-b is the scratch area of a seed with an updater in the registries
\* that can be refreshed: as a name it meets the refresh's own directories
Names == UserNames \cup { seed_name("b") } \cup TmpNames

\* --seeds: none, or default
SeedArgs == { NO_SEEDS, DEFAULT_SEEDS }

\* The two roots are apart (the work root beside the script, the home root
\* in the user's cache) and outlive an invocation: a name can be under
\* either, both or none of them when an invocation starts.
Init ==
    /\ SEEDS \in Registries
    /\ workDirs \in SUBSET UserNames
    /\ homeDirs \in SUBSET UserNames
    /\ UPDATED = << >>
    /\ script_mtime = [ k \in Range(KeyOrder) |-> 0 ]
    /\ clock = 1
    /\ proc = NoProc
    /\ last = NoLast

New ==
    \E name \in Names, seeds \in SeedArgs, enter \in BOOLEAN :
        /\ Invoke([Args("new", name) EXCEPT !.seeds = seeds, !.enter = enter])
        /\ UNCHANGED <<SEEDS, script_mtime, clock, proc>>

Enter ==
    \E name \in Names :
        /\ Invoke(Args("enter", name))
        /\ UNCHANGED <<SEEDS, script_mtime, clock, proc>>

Exec ==
    \E name \in Names :
        /\ Invoke([Args("exec", name) EXCEPT !.exec = "make", !.args = <<"all">>])
        /\ UNCHANGED <<SEEDS, script_mtime, clock, proc>>

\* --format
Formats == {"default", "json", "names"}

List ==
    \E format \in Formats :
        /\ Invoke([Args("list", "") EXCEPT !.format = format])
        /\ UNCHANGED <<SEEDS, script_mtime, clock, proc>>

Purge ==
    \E name \in Names :
        /\ Invoke(Args("purge", name))
        /\ UNCHANGED <<SEEDS, script_mtime, clock, proc>>

Reset ==
    \E name \in Names, seeds \in SeedArgs, clean \in BOOLEAN :
        /\ Invoke([Args("reset", name) EXCEPT !.seeds = seeds, !.clean = clean])
        /\ UNCHANGED <<SEEDS, script_mtime, clock, proc>>

Tmp ==
    \E seeds \in SeedArgs, cands \in [1..NumCands -> Words] :
        /\ Invoke([Args("tmp", "") EXCEPT !.seeds = seeds, !.cands = cands])
        /\ UNCHANGED <<SEEDS, script_mtime, clock, proc>>

Next == New \/ Enter \/ Exec \/ List \/ Purge \/ Reset \/ Tmp

Spec == Init /\ [][Next]_vars

-----------------------------------------------------------------------------
(* The dependency resolver on every registry of three keys: Init draws the *)
(* registry, the action is one call of update_seeds.                       *)

\* every registry over KeyOrder: any depends among the keys and UNKNOWN;
\* the first seed with or without an update script (as "configs" is in the
\* source), the others with one
AllRegistries ==
    LET deps == SUBSET (Range(KeyOrder) \cup {UNKNOWN})
    IN  { [ i \in 1..Len(KeyOrder) |->
              [key |-> KeyOrder[i], depends |-> d[i],
               update_script |-> (i > 1 \/ u)] ] :
          d \in [1..Len(KeyOrder) -> deps], u \in BOOLEAN }

InitSeeds ==
    /\ SEEDS \in AllRegistries
    /\ workDirs = {}
    /\ homeDirs = {}
    /\ UPDATED = << >>
    /\ script_mtime = [ k \in Range(KeyOrder) |-> 0 ]
    /\ clock = 1
    /\ proc = NoProc
    /\ last = NoLast

\* one call of update_seeds(), every launch in it exiting 0 or not
UpdateSeeds ==
    LET s0 == update_seeds(Begin, [failAt |-> 0, touch |-> {}, now |-> clock],
                           SEEDS, script_mtime)
    IN  \E failAt \in 0..s0.nrun, touch \in SUBSET launched_updaters(SEEDS, s0) :
            LET in == [failAt |-> failAt, touch |-> touch, now |-> clock]
                s == update_seeds(Begin, in, SEEDS, script_mtime)
            IN  /\ workDirs' = s.work
                /\ homeDirs' = s.home
                /\ UPDATED' = s.UPDATED
                /\ last' = Record(Args("update_seeds", ""), s)
                /\ UNCHANGED <<SEEDS, script_mtime, clock, proc>>

NextSeeds == UpdateSeeds

SpecSeeds == InitSeeds /\ [][NextSeeds]_vars

-----------------------------------------------------------------------------
(* The staleness cache on a grid of times: Init draws the updater's mtime, *)
(* the marker (absent, or its mtime) and the clock around the cool-down;   *)
(* the action is one call of update_seed.                                  *)

\* an updater seed depending on a seed without updater, as in the source
CacheRegistry == reg2({}, FALSE, {"a"}, TRUE)

SmallTimes == 0..MaxOffset

\* the clock: small values, and the values around the cool-down
ClockTimes == SmallTimes \cup { COOLDOWN + d : d \in (0 - 1)..MaxOffset }

InitCache ==
    /\ SEEDS = CacheRegistry
    /\ \E u \in SmallTimes : script_mtime = [ k \in Range(KeyOrder) |-> u ]
    /\ workDirs \in SUBSET { seed_name("b") }
    /\ homeDirs \in SUBSET { seed_name("b") }
    /\ \/ UPDATED = << >>
       \/ /\ seed_name("b") \in homeDirs
          /\ \E t \in SmallTimes : UPDATED = [ n \in { seed_name("b") } |-> t ]
    /\ clock \in ClockTimes
    /\ proc = NoProc
    /\ last = NoLast

\* one call of update_seed(key, now) with now = time.time()
UpdateSeed ==
    \E key \in Range(keys(SEEDS)) :
        LET s0 == update_seed(Begin, [failAt |-> 0, touch |-> {}, now |-> clock],
                              SEEDS, script_mtime, key)
        IN  \E failAt \in 0..s0.nrun, touch \in SUBSET launched_updaters(SEEDS, s0) :
                LET in == [failAt |-> failAt, touch |-> touch, now |-> clock]
                    s == update_seed(Begin, in, SEEDS, script_mtime, key)
                IN  /\ workDirs' = s.work
                    /\ homeDirs' = s.home
                    /\ UPDATED' = s.UPDATED
                    /\ last' = Record(Args("update_seed", key), s)
                    /\ UNCHANGED <<SEEDS, script_mtime, clock, proc>>

NextCache == UpdateSeed

SpecCache == InitCache /\ [][NextCache]_vars

-----------------------------------------------------------------------------
(* tmp over two words: Init draws which of the two tmp- names are under    *)
(* each root, the action is one `tmp` with the candidates the generator    *)
(* yields to it.                                                           *)

TmpWords == {"p", "q"}

InitTmp ==
    /\ SEEDS = CacheRegistry
    /\ workDirs \in SUBSET { tmp_name(w) : w \in TmpWords }
    /\ homeDirs \in SUBSET { tmp_name(w) : w \in TmpWords }
    /\ UPDATED = << >>
    /\ script_mtime = [ k \in Range(KeyOrder) |-> 0 ]
    /\ clock = 1
    /\ proc = NoProc
    /\ last = NoLast

TmpAmong ==
    \E seeds \in SeedArgs, cands \in [1..NumCands -> TmpWords] :
        /\ Invoke([Args("tmp", "") EXCEPT !.seeds = seeds, !.cands = cands])
        /\ UNCHANGED <<SEEDS, script_mtime, clock, proc>>

NextTmp == TmpAmong

SpecTmp == InitTmp /\ [][NextTmp]_vars

-----------------------------------------------------------------------------
(* run, step by step: the parent's statements and the steps of its two     *)
(* children, the archiver (tar, `seed` in the source) and the isolated     *)
(* process (bwrap), which share a pipe.  The callers that make several     *)
(* launches (update_seed, new --enter, tmp) are their sequence of calls: a *)
(* call that raises leaves the rest unmade.                                *)
(*   proc.calls     the calls still to make, the one in progress first     *)
(*   proc.n         the number of the call in progress                     *)
(*   proc.pc        the parent's next statement                            *)
(*   proc.seed, proc.bwrap                                                 *)
(*                  a child is "none", "running", "exited" (not waited     *)
(*                  for) or "reaped"; *_rc is its exit status              *)
(*   proc.readers   who holds the read end of the pipe                     *)
(*   proc.fill      bytes in the pipe; proc.left: bytes tar has to write   *)
(*   proc.nread     bytes the isolated process read                        *)
(*   proc.err       "" or the exception that left run                      *)
(*   proc.log       the parent's Popen and wait calls, in order            *)
(*   proc.leaked    children of finished calls that were not waited for    *)
(* The installation is taken as complete: podman.bpf, bwrap and tar exist  *)
(* and the environment variables run reads are set.                        *)
(***************************************************************************)

\* the capacity of the pipe
PipeCap == 1

\* the length of the archive tar writes
ArchiveLen == 2

\* the returncode of a child that SIGPIPE ended
SIGPIPE == 0 - 13

Call(name, seeds, init, exec) ==
    [name |-> name, seeds |-> seeds, init |-> init, exec |-> exec]

\* the launches a caller makes, in order
Callers ==
    { \* enter_environment / exec_environment
      << Call("x", NO_SEEDS, NO_INIT, NO_EXEC) >>,
      \* new_environment, reset_environment: the bootstrap, without and with seeds
      << Call("x", NO_SEEDS, DEV_INIT, NO_EXEC) >>,
      << Call("x", <<"a", "b">>, DEV_INIT, NO_EXEC) >>,
      \* new --enter, create_enter_tmp_environment: the bootstrap, then the shell
      << Call("x", <<"a", "b">>, DEV_INIT, NO_EXEC),
         Call("x", NO_SEEDS, NO_INIT, NO_EXEC) >>,
      \* update_seed: the bootstrap with the depends, then the updater
      << Call(seed_name("b"), <<"a">>, DEV_INIT, NO_EXEC),
         Call(seed_name("b"), NO_SEEDS, update_script("b"), NO_EXEC) >> }

\* the state at the first statement of a call
enter_run(calls, n, log, leaked) ==
    [calls |-> calls, n |-> n, pc |-> "mkdir",
     seed |-> "none", seed_rc |-> 0, bwrap |-> "none", bwrap_rc |-> 0,
     readers |-> {}, fill |-> 0, left |-> 0, nread |-> 0,
     err |-> "", err_rc |-> 0, err_cmd |-> "", log |-> log, leaked |-> leaked]

\* the children of the call that were started and not waited for
unreaped(p) ==
    { c \in {"seed", "bwrap"} : p[c] \in {"running", "exited"} }

\* mutant: the isolated process is started before the archiver
next_pc_bwrap_first(pc, seeds) ==
    IF pc = "mkdir" THEN "popen_bwrap"
    ELSE IF pc = "popen_bwrap"
         THEN (IF Len(seeds) > 0 THEN "popen_seed" ELSE "wait_bwrap")
    ELSE IF pc = "popen_seed" THEN "close_stdout"
    ELSE IF pc = "close_stdout" THEN "wait_bwrap"
    ELSE IF pc = "wait_bwrap"
         THEN (IF Len(seeds) > 0 THEN "wait_seed" ELSE "return")
    ELSE "return"

\* the order of the statements of run
next_pc(pc, seeds) ==
    IF pc = "mkdir"
    THEN (IF Len(seeds) > 0 THEN "popen_seed" ELSE "popen_bwrap")
    ELSE IF pc = "popen_seed" THEN "popen_bwrap"
    ELSE IF pc = "popen_bwrap"
         THEN (IF Len(seeds) > 0 THEN "close_stdout" ELSE "wait_bwrap")
    ELSE IF pc = "close_stdout" THEN "wait_bwrap"
    ELSE IF pc = "wait_bwrap"
         THEN (IF Len(seeds) > 0 THEN "wait_seed" ELSE "return")
    ELSE "return"

\* run returns: the caller makes its next call, if it has one
return_from_run(p) ==
    IF Len(p.calls) > 1
    THEN enter_run(Tail(p.calls), p.n + 1, p.log, p.leaked + Cardinality(unreaped(p)))
    ELSE [p EXCEPT !.pc = "done", !.leaked = @ + Cardinality(unreaped(p))]

\* the statement is done: on to the next one
goto_next(p) ==
    IF next_pc(p.pc, p.calls[1].seeds) = "return" THEN return_from_run(p)
    ELSE [p EXCEPT !.pc = next_pc(p.pc, p.calls[1].seeds)]

LogCall(p, op) == [p EXCEPT !.log = Append(@, [n |-> p.n, op |-> op])]

InitRun ==
    /\ SEEDS = reg2({}, FALSE, {"a"}, TRUE)
    /\ workDirs = {"x", seed_name("b")}
    /\ homeDirs \in SUBSET {"x"}
    /\ UPDATED = << >>
    /\ script_mtime = [ k \in Range(KeyOrder) |-> 0 ]
    /\ clock = 1
    /\ \E calls \in Callers : proc = enter_run(calls, 1, <<>>, 0)
    /\ last = NoLast

\* try: host_home.mkdir(parents=True) except FileExistsError: pass
run_mkdir ==
    /\ proc.pc = "mkdir"
    /\ homeDirs' = homeDirs \cup {proc.calls[1].name}
    /\ proc' = goto_next(proc)
    /\ UNCHANGED <<SEEDS, workDirs, UPDATED, script_mtime, clock, last>>

\* seed = subprocess.Popen(args, stdout=subprocess.PIPE): tar holds the write
\* end, the parent the read end
run_popen_seed ==
    /\ proc.pc = "popen_seed"
    /\ proc' = goto_next(LogCall([proc EXCEPT !.seed = "running",
                                              !.left = ArchiveLen,
                                              !.readers = @ \cup {"parent"}],
                                 "Popen tar"))
    /\ UNCHANGED <<SEEDS, workDirs, homeDirs, UPDATED, script_mtime, clock, last>>

\* bwrap = subprocess.Popen(..., pass_fds=[seed.stdout.fileno(), ...]): the
\* isolated process inherits the read end when there is one
run_popen_bwrap ==
    /\ proc.pc = "popen_bwrap"
    /\ proc' = goto_next(LogCall([proc EXCEPT !.bwrap = "running",
                                              !.readers =
                                                  IF proc.seed # "none"
                                                  THEN @ \cup {"bwrap"} ELSE @],
                                 "Popen bwrap"))
    /\ UNCHANGED <<SEEDS, workDirs, homeDirs, UPDATED, script_mtime, clock, last>>

\* mutant: the parent keeps its copy of the read end
close_stdout_forgotten(readers) == readers

\* seed.stdout.close()
close_stdout(readers) == readers \ {"parent"}

run_close_stdout ==
    /\ proc.pc = "close_stdout"
    /\ proc' = goto_next([proc EXCEPT !.readers = close_stdout(@)])
    /\ UNCHANGED <<SEEDS, workDirs, homeDirs, UPDATED, script_mtime, clock, last>>

\* mutant: the exit status of the isolated process is not looked at
returncode_ignored(rc) == FALSE

\* bwrap.wait() != 0
returncode_raises(rc) == rc # 0

\* raise subprocess.CalledProcessError(bwrap.returncode, "bwrap"): run is
\* left, and so is its caller
raise_CalledProcessError(p, rc, cmd) ==
    [p EXCEPT !.pc = "raised", !.err = "CalledProcessError", !.err_rc = rc,
              !.err_cmd = cmd, !.leaked = @ + Cardinality(unreaped(p))]

\* bwrap.wait(): blocks until the isolated process has exited
run_wait_bwrap ==
    /\ proc.pc = "wait_bwrap"
    /\ proc.bwrap = "exited"
    /\ proc' = LET p == LogCall([proc EXCEPT !.bwrap = "reaped"], "wait bwrap")
               IN  IF returncode_raises(p.bwrap_rc)
                   THEN raise_CalledProcessError(p, p.bwrap_rc, "bwrap")
                   ELSE goto_next(p)
    /\ UNCHANGED <<SEEDS, workDirs, homeDirs, UPDATED, script_mtime, clock, last>>

\* seed.wait(): blocks until tar has exited; its status is not looked at
run_wait_seed ==
    /\ proc.pc = "wait_seed"
    /\ proc.seed = "exited"
    /\ proc' = goto_next(LogCall([proc EXCEPT !.seed = "reaped"], "wait tar"))
    /\ UNCHANGED <<SEEDS, workDirs, homeDirs, UPDATED, script_mtime, clock, last>>

\* tar writes into the pipe while there is room and a reader
tar_write ==
    /\ proc.pc # "none"
    /\ proc.seed = "running"
    /\ proc.left > 0
    /\ proc.readers # {}
    /\ proc.fill < PipeCap
    /\ proc' = [proc EXCEPT !.fill = @ + 1, !.left = @ - 1]
    /\ UNCHANGED <<SEEDS, workDirs, homeDirs, UPDATED, script_mtime, clock, last>>

\* a write into a pipe nobody can read: SIGPIPE ends tar
tar_sigpipe ==
    /\ proc.pc # "none"
    /\ proc.seed = "running"
    /\ proc.left > 0
    /\ proc.readers = {}
    /\ proc' = [proc EXCEPT !.seed = "exited", !.seed_rc = SIGPIPE]
    /\ UNCHANGED <<SEEDS, workDirs, homeDirs, UPDATED, script_mtime, clock, last>>

\* tar has written the archive and exits, with or without an error
tar_exit ==
    /\ proc.pc # "none"
    /\ proc.seed = "running"
    /\ proc.left = 0
    /\ \E rc \in {0, 1} :
           proc' = [proc EXCEPT !.seed = "exited", !.seed_rc = rc]
    /\ UNCHANGED <<SEEDS, workDirs, homeDirs, UPDATED, script_mtime, clock, last>>

\* the isolated process reads from the descriptor it was passed
\* (--file <fd> /dev/shm/seed.tar); nothing makes it read all of it, or any
bwrap_read ==
    /\ proc.pc # "none"
    /\ proc.bwrap = "running"
    /\ "bwrap" \in proc.readers
    /\ proc.fill > 0
    /\ proc' = [proc EXCEPT !.fill = @ - 1, !.nread = @ + 1]
    /\ UNCHANGED <<SEEDS, workDirs, homeDirs, UPDATED, script_mtime, clock, last>>

\* the isolated process exits, whatever it has read; its descriptors close
bwrap_exit ==
    /\ proc.pc # "none"
    /\ proc.bwrap = "running"
    /\ \E rc \in {0, 1} :
           proc' = [proc EXCEPT !.bwrap = "exited", !.bwrap_rc = rc,
                                !.readers = @ \ {"bwrap"}]
    /\ UNCHANGED <<SEEDS, workDirs, homeDirs, UPDATED, script_mtime, clock, last>>

NextRun ==
    \/ run_mkdir \/ run_popen_seed \/ run_popen_bwrap \/ run_close_stdout
    \/ run_wait_bwrap \/ run_wait_seed
    \/ tar_write \/ tar_sigpipe \/ tar_exit \/ bwrap_read \/ bwrap_exit

SpecRun == InitRun /\ [][NextRun]_vars

\* every child that can take a step takes one in the end, the isolated
\* process terminates, and the parent runs on when it is not blocked
FairRun ==
    /\ WF_vars(run_mkdir) /\ WF_vars(run_popen_seed) /\ WF_vars(run_popen_bwrap)
    /\ WF_vars(run_close_stdout) /\ WF_vars(run_wait_bwrap) /\ WF_vars(run_wait_seed)
    /\ WF_vars(tar_write) /\ WF_vars(tar_sigpipe) /\ WF_vars(tar_exit)
    /\ WF_vars(bwrap_exit)

SpecRunFair == SpecRun /\ FairRun

-----------------------------------------------------------------------------
(* Two invocations of `new` for the same name, statement by statement and  *)
(* interleaved.  They share the two roots and the markers; here `proc` is  *)
(*   proc.name        the name both were given                             *)
(*   proc.p[i].pc     the statement invocation i is at, or "returned",     *)
(*                    "exited" (sys.exit), "raised"                        *)
(*   proc.p[i].err    "" or what ended the invocation; .at: where          *)
(*   proc.p[i].passed the existence test of new_environment found nothing  *)
(*   proc.p[i].saw    what work_dir.exists() of update_seed returned       *)
(*   proc.p[i].made   its work_dir.mkdir of the environment succeeded      *)
(*   proc.p[i].launched  it called run for the environment                 *)
(***************************************************************************)

Invocations == {1, 2}

\* the seed of the registry that has an updater
NewKey == CHOOSE k \in Range(keys(SEEDS)) : has_update_script(SEEDS, k)

NewNames == {"x", seed_name("b")}

InitNew ==
    /\ SEEDS = CacheRegistry
    /\ script_mtime = [ k \in Range(KeyOrder) |-> 0 ]
    /\ clock = 1
    /\ \E name \in NewNames :
          /\ workDirs \in SUBSET ({ seed_name("b") } \ {name})
          /\ homeDirs \in SUBSET ({ seed_name("b") } \ {name})
          /\ \/ UPDATED = << >>
             \/ /\ seed_name("b") \in homeDirs
                /\ UPDATED = [ n \in { seed_name("b") } |-> clock ]
          /\ proc = [name |-> name,
                     p |-> [ i \in Invocations |->
                               [pc |-> "exists_work", err |-> "", at |-> "",
                                passed |-> FALSE, saw |-> FALSE, made |-> FALSE,
                                launched |-> FALSE] ]]
    /\ last = NoLast

\* invocation i is now q, and the roots are as the statement left them in s
new_step(i, q, s) ==
    /\ proc' = [proc EXCEPT !.p[i] = q]
    /\ workDirs' = s.work
    /\ homeDirs' = s.home
    /\ UPDATED' = s.UPDATED
    /\ UNCHANGED <<SEEDS, script_mtime, clock, last>>

\* the statement at q.pc left s: the invocation goes on, or ends with the
\* exception
new_goto(q, s, next) ==
    IF s.err # "" THEN [q EXCEPT !.pc = "raised", !.err = s.err, !.at = q.pc]
    ELSE [q EXCEPT !.pc = next]

\* what one launch can do: exit 0 or not, and touch the marker or not
LaunchInputs ==
    [failAt : {0, 1}, touch : SUBSET {NewKey}, now : {clock}]

\* if work_dir.exists() ...: sys.exit(1)
new_exists_work(i) ==
    /\ proc.p[i].pc = "exists_work"
    /\ new_step(i, IF proc.name \in workDirs
                   THEN [proc.p[i] EXCEPT !.pc = "exited", !.err = EXIT1,
                                          !.at = "exists_work"]
                   ELSE [proc.p[i] EXCEPT !.pc = "exists_home"],
                Begin)

\* ... or (HOME_DIRS / name).exists(): sys.exit(1)
new_exists_home(i) ==
    /\ proc.p[i].pc = "exists_home"
    /\ new_step(i, IF proc.name \in homeDirs
                   THEN [proc.p[i] EXCEPT !.pc = "exited", !.err = EXIT1,
                                          !.at = "exists_home"]
                   ELSE [proc.p[i] EXCEPT !.pc = "seed_exists", !.passed = TRUE],
                Begin)

\* update_seeds() reaches update_seed of the seed: if not work_dir.exists()
seed_exists(i) ==
    /\ proc.p[i].pc = "seed_exists"
    /\ new_step(i, IF seed_name(NewKey) \in workDirs
                   THEN [proc.p[i] EXCEPT !.pc = "seed_marker", !.saw = TRUE]
                   ELSE [proc.p[i] EXCEPT !.pc = "seed_mkdir", !.saw = FALSE],
                Begin)

\* update_seed: work_dir.mkdir(parents=True)
seed_mkdir(i) ==
    /\ proc.p[i].pc = "seed_mkdir"
    /\ new_step(i, new_goto(proc.p[i], mkdir_work(Begin, seed_name(NewKey)),
                            "seed_marker"),
                mkdir_work(Begin, seed_name(NewKey)))

\* update_seed: the marker is read; a fresh seed is skipped
seed_marker(i) ==
    /\ proc.p[i].pc = "seed_marker"
    /\ new_step(i, IF fresh(script_mtime[NewKey],
                            marker_mtime(Begin, seed_name(NewKey)), clock)
                   THEN [proc.p[i] EXCEPT !.pc = "mkdir"]
                   ELSE [proc.p[i] EXCEPT !.pc = "seed_bootstrap"],
                Begin)

\* update_seed: run(name, seeds=depends, init=dev-init.sh)
seed_bootstrap(i) ==
    /\ proc.p[i].pc = "seed_bootstrap"
    /\ \E in \in LaunchInputs :
          /\ in.touch = {}
          /\ new_step(i, new_goto(proc.p[i],
                                  run(Begin, in, SEEDS, seed_name(NewKey),
                                      ListOf(depends(SEEDS, NewKey)), DEV_INIT,
                                      NO_EXEC),
                                  "seed_updater"),
                      run(Begin, in, SEEDS, seed_name(NewKey),
                          ListOf(depends(SEEDS, NewKey)), DEV_INIT, NO_EXEC))

\* update_seed: run(name, init=update_script); update_seeds returns
seed_updater(i) ==
    /\ proc.p[i].pc = "seed_updater"
    /\ \E in \in LaunchInputs :
          new_step(i, new_goto(proc.p[i],
                               run(Begin, in, SEEDS, seed_name(NewKey), NO_SEEDS,
                                   update_script(NewKey), NO_EXEC),
                               "mkdir"),
                   run(Begin, in, SEEDS, seed_name(NewKey), NO_SEEDS,
                       update_script(NewKey), NO_EXEC))

\* new_environment: work_dir.mkdir(parents=True)
new_mkdir(i) ==
    /\ proc.p[i].pc = "mkdir"
    /\ new_step(i, [new_goto(proc.p[i], mkdir_work(Begin, proc.name), "run")
                       EXCEPT !.made = mkdir_work(Begin, proc.name).err = ""],
                mkdir_work(Begin, proc.name))

\* new_environment: run(name, seeds=seeds, init=dev-init.sh)
new_run(i) ==
    /\ proc.p[i].pc = "run"
    /\ \E in \in LaunchInputs :
          /\ in.touch = {}
          /\ new_step(i, [new_goto(proc.p[i],
                                   run(Begin, in, SEEDS, proc.name, DEFAULT_SEEDS,
                                       DEV_INIT, NO_EXEC),
                                   "returned")
                             EXCEPT !.launched = TRUE],
                      run(Begin, in, SEEDS, proc.name, DEFAULT_SEEDS, DEV_INIT,
                          NO_EXEC))

NextNew ==
    \E i \in Invocations :
        \/ new_exists_work(i)
        \/ new_exists_home(i)
        \/ seed_exists(i)
        \/ seed_mkdir(i)
        \/ seed_marker(i)
        \/ seed_bootstrap(i)
        \/ seed_updater(i)
        \/ new_mkdir(i)
        \/ new_run(i)

SpecNew == InitNew /\ [][NextNew]_vars

-----------------------------------------------------------------------------
(* random_names, statement by statement, drained by a consumer that takes  *)
(* every candidate.  A line of a word source is one of a few kinds, a list *)
(* of lines is the set of the kinds it holds, and random.choice picks any  *)
(* line of the list.  Here `proc` is the generator:                        *)
(*   proc.cache    the cached EFF list: whether the file is present, and   *)
(*                 the kinds of its lines (none: the file is empty)        *)
(*   proc.url      the download: whether it succeeds, the kinds of the     *)
(*                 lines of the text, whether the text ends with a newline *)
(*   proc.dict     /usr/share/dict/words: whether the file is present, and *)
(*                 the kinds of its lines                                  *)
(*   proc.words    the list the draws choose from                          *)
(*   proc.pc       the generator's position; proc.i: the draws made in the *)
(*                 loop it is in                                           *)
(*   proc.yielded  the number of candidates yielded; proc.word: the last   *)
(*   proc.err      "" or the exception that left the generator             *)
(***************************************************************************)

\* the draws of the three loops (range(200), range(200), range(20)), scaled
EffDraws == 2
DictDraws == 2
RandomDraws == 1

\* the lines of the EFF list: no field, one field, a number and a word the
\* filter accepts, a number and a word the filter rejects
EffLines == {"blank", "single", "good", "rejected"}

\* the lines of the dictionary: empty once stripped, a word the filter
\* accepts, a word the filter rejects
DictLines == {"blank", "good", "rejected"}

INDEX_ERROR == "IndexError"

\* random.choice(words): IndexError on an empty list
choice_raises(words) == words = {}

\* line.split()[1]: the second field, IndexError when the line has none
second_field_raises(line) == line \in {"blank", "single"}

\* text.split("\n"): the lines, and an empty string after a final newline or
\* for an empty text
split_newline(text) ==
    text.lines \cup (IF text.newline \/ text.lines = {} THEN {"blank"} ELSE {})

InitNames ==
    /\ SEEDS = CacheRegistry
    /\ workDirs = {}
    /\ homeDirs = {}
    /\ UPDATED = << >>
    /\ script_mtime = [ k \in Range(KeyOrder) |-> 0 ]
    /\ clock = 1
    /\ last = NoLast
    /\ \E cache \in [present : BOOLEAN, lines : SUBSET EffLines],
          url \in [ok : BOOLEAN, lines : SUBSET {"good", "rejected"}, newline : BOOLEAN],
          dict \in [present : BOOLEAN, lines : SUBSET DictLines] :
           /\ ~cache.present => cache.lines = {}
           /\ ~dict.present => dict.lines = {}
           /\ (cache.present \/ ~url.ok) => (url.lines = {} /\ ~url.newline /\ ~url.ok)
           /\ proc = [pc |-> "open_cache", cache |-> cache, url |-> url, dict |-> dict,
                      words |-> {}, i |-> 0, yielded |-> 0, word |-> "", err |-> ""]

\* `yield word`: the consumer takes the word and asks for the next
yield(p, word) == [p EXCEPT !.yielded = @ + 1, !.word = word]

\* an exception leaves the generator
names_raise(p, err) == [p EXCEPT !.pc = "raised", !.err = err]

\* one more pass of a `for _ in range(draws)` loop is over
names_loop(p, draws, after) ==
    IF p.i + 1 = draws THEN [p EXCEPT !.pc = after, !.i = 0]
    ELSE [p EXCEPT !.i = @ + 1]

\* words = open(CACHE_DIR / "eff_short_wordlist_1.txt").readlines(); when the
\* file is missing the list is downloaded, written to the cache and split,
\* or the download fails and the source is skipped
names_open_cache ==
    /\ proc.pc = "open_cache"
    /\ proc' =
          IF proc.cache.present
          THEN [proc EXCEPT !.pc = "draw_eff", !.words = proc.cache.lines]
          ELSE IF ~proc.url.ok
          THEN [proc EXCEPT !.pc = "open_dict"]
          ELSE [proc EXCEPT !.pc = "draw_eff",
                            !.cache = [present |-> TRUE, lines |-> proc.url.lines],
                            !.words = split_newline(proc.url)]
    /\ UNCHANGED <<SEEDS, workDirs, homeDirs, UPDATED, script_mtime, clock, last>>

\* word = random.choice(words).split()[1]; yield it when the filter accepts
names_draw_eff ==
    /\ proc.pc = "draw_eff"
    /\ IF choice_raises(proc.words)
       THEN proc' = names_raise(proc, INDEX_ERROR)
       ELSE \E line \in proc.words :
               proc' = IF second_field_raises(line)
                       THEN names_raise(proc, INDEX_ERROR)
                       ELSE names_loop(IF line = "good" THEN yield(proc, "eff word")
                                       ELSE proc,
                                       EffDraws, "open_dict")
    /\ UNCHANGED <<SEEDS, workDirs, homeDirs, UPDATED, script_mtime, clock, last>>

\* words = open("/usr/share/dict/words").readlines(); a missing file is passed
names_open_dict ==
    /\ proc.pc = "open_dict"
    /\ proc' = IF ~proc.dict.present
               THEN [proc EXCEPT !.pc = "draw_random"]
               ELSE [proc EXCEPT !.pc = "draw_dict", !.words = proc.dict.lines]
    /\ UNCHANGED <<SEEDS, workDirs, homeDirs, UPDATED, script_mtime, clock, last>>

\* word = random.choice(words).strip(); yield it when the filter accepts
names_draw_dict ==
    /\ proc.pc = "draw_dict"
    /\ IF choice_raises(proc.words)
       THEN proc' = names_raise(proc, INDEX_ERROR)
       ELSE \E line \in proc.words :
               proc' = names_loop(IF line = "good" THEN yield(proc, "dict word")
                                  ELSE proc,
                                  DictDraws, "draw_random")
    /\ UNCHANGED <<SEEDS, workDirs, homeDirs, UPDATED, script_mtime, clock, last>>

\* for _ in range(20): yield six random letters
names_draw_random ==
    /\ proc.pc = "draw_random"
    /\ proc' = names_loop(yield(proc, "6 letters"), RandomDraws, "fallback")
    /\ UNCHANGED <<SEEDS, workDirs, homeDirs, UPDATED, script_mtime, clock, last>>

\* yield thirty-two random letters, and the generator is exhausted
names_fallback ==
    /\ proc.pc = "fallback"
    /\ proc' = [yield(proc, "32 letters") EXCEPT !.pc = "done"]
    /\ UNCHANGED <<SEEDS, workDirs, homeDirs, UPDATED, script_mtime, clock, last>>

NextNames ==
    \/ names_open_cache
    \/ names_draw_eff
    \/ names_open_dict
    \/ names_draw_dict
    \/ names_draw_random
    \/ names_fallback

SpecNames == InitNames /\ [][NextNames]_vars

-----------------------------------------------------------------------------
(* What the log of the last invocation shows *)

\* the launches, in order
Launches == SelectSeq(last.ev, LAMBDA e : e.ev = "run")

\* the keys update_seed was called for, in order
Calls ==
    LET c == SelectSeq(last.ev, LAMBDA e : e.ev = "update_seed")
    IN  [ i \in 1..Len(c) |-> c[i].name ]

AllLaunchesExitZero == \A i \in 1..Len(Launches) : Launches[i].rc = 0

StoresUnchanged ==
    /\ workDirs = last.work0
    /\ homeDirs = last.home0
    /\ UPDATED = last.UPDATED0

-----------------------------------------------------------------------------
(* The depends relation as a graph, stated without the resolver *)

Registered == Range(keys(SEEDS))

\* the keys reached from k by one or more depends edges
DependsPlus(k) ==
    LET step[n \in 0..Len(SEEDS)] ==
            IF n = 0 THEN depends(SEEDS, k)
            ELSE step[n - 1] \cup
                 UNION { depends(SEEDS, j) : j \in step[n - 1] \cap Registered }
    IN  step[Len(SEEDS)]

OnCycle(k) == k \in DependsPlus(k)

Dangling(k) == ~(depends(SEEDS, k) \subseteq Registered)

Satisfiable == \A k \in Registered : ~OnCycle(k) /\ ~Dangling(k)

\* on a cycle or with a dangling dependency, or depending on such a key
NeverOrdered ==
    { k \in Registered :
        \/ OnCycle(k) \/ Dangling(k)
        \/ \E j \in DependsPlus(k) \cap Registered : OnCycle(j) \/ Dangling(j) }

-----------------------------------------------------------------------------
(* C1: for a registry whose depends relation is acyclic and names only     *)
(* registered keys, update_seeds never raises the unsatisfiable-dependency *)
(* error: it returns, unless a launch made by update_seed exits non-zero   *)
(* (which raises CalledProcessError out of it).  update_seed is called at  *)
(* most once per key, for a key only after it was called for every key of  *)
(* its depends, and when update_seeds returns it was called for every      *)
(* registered key.                                                         *)
C1_ResolverOrdersEveryKey ==
    (last.args.command = "update_seeds" /\ Satisfiable) =>
        /\ last.status \in {"", "CalledProcessError"}
        /\ (last.status = "") <=> AllLaunchesExitZero
        /\ \A i, j \in 1..Len(Calls) : Calls[i] = Calls[j] => i = j
        /\ \A i \in 1..Len(Calls) :
               depends(SEEDS, Calls[i]) \subseteq { Calls[j] : j \in 1..(i - 1) }
        /\ last.status = "" => Range(Calls) = Registered

\* a registry listed against its dependency order (a needs b, b needs c) was
\* resolved in three rounds, with launches
C1_Witness ==
    /\ last.args.command = "update_seeds"
    /\ Satisfiable
    /\ depends(SEEDS, "a") = {"b"}
    /\ depends(SEEDS, "b") = {"c"}
    /\ last.status = ""
    /\ Calls = <<"c", "b", "a">>
    /\ Len(Launches) > 0

(* C2: for a registry with a dependency cycle or a dangling dependency,    *)
(* update_seeds fails: with the unsatisfiable-dependency error whenever no *)
(* launch exits non-zero before (else with that launch's error); the error *)
(* names, in registry order, exactly the keys that can never be ordered,   *)
(* so the named set is a function of the registry.                         *)
C2_UnsatisfiableNamesStuckKeys ==
    (last.args.command = "update_seeds" /\ ~Satisfiable) =>
        /\ last.status \in {UNSATISFIABLE, "CalledProcessError"}
        /\ AllLaunchesExitZero => last.status = UNSATISFIABLE
        /\ last.status = UNSATISFIABLE =>
               /\ last.stuck = SelectSeq(keys(SEEDS), LAMBDA k : k \in NeverOrdered)
               /\ Range(Calls) = Registered \ NeverOrdered

\* the error named two keys, one of them neither on a cycle nor dangling
\* itself, after the third key was refreshed
C2_Witness ==
    /\ last.args.command = "update_seeds"
    /\ last.status = UNSATISFIABLE
    /\ Len(last.stuck) = 2
    /\ \E k \in Range(last.stuck) : ~OnCycle(k) /\ ~Dangling(k)
    /\ Len(Calls) = 1
    /\ Len(Launches) = 2

(* C3: when the dependency graph is unsatisfiable, new, tmp and reset      *)
(* abort before any filesystem mutation: no directory is created or        *)
(* deleted and nothing is launched.                                        *)
C3_UnsatisfiableAbortsBeforeMutation ==
    (last.args.command \in {"new", "tmp", "reset"} /\ ~Satisfiable
         /\ last.status = UNSATISFIABLE) =>
        /\ workDirs = last.work0
        /\ homeDirs = last.home0
        /\ Len(Launches) = 0

(* C4: for a seed with an updater, updater mtime u, marker mtime t (0 when *)
(* the marker is absent) and batch start time now, update_seed makes no    *)
(* launch if and only if u < t and now - t < 43200.                        *)
C4_SkipIffFreshAndCoolingDown ==
    (last.args.command = "update_seed"
         /\ has_update_script(SEEDS, last.args.name)) =>
        LET name == seed_name(last.args.name)
            u == script_mtime[last.args.name]
            t == IF name \in DOMAIN last.UPDATED0 THEN last.UPDATED0[name] ELSE 0
            now == clock
        IN  (Len(Launches) = 0) <=> (u < t /\ now - t < 43200)

\* a refresh at the boundary now - t = 43200 with u < t
C4_Witness ==
    /\ last.args.command = "update_seed"
    /\ has_update_script(SEEDS, last.args.name)
    /\ seed_name(last.args.name) \in DOMAIN last.UPDATED0
    /\ script_mtime[last.args.name] < last.UPDATED0[seed_name(last.args.name)]
    /\ clock - last.UPDATED0[seed_name(last.args.name)] = 43200
    /\ Len(Launches) > 0

-----------------------------------------------------------------------------
(* The environment store *)

Cmd == last.args.command

Target == last.args.name

NoEffect == last.ev = <<>> /\ StoresUnchanged

IsRmtreeHome(e, name) == e.ev = "rmtree" /\ e.root = "home" /\ e.name = name

IsBootstrap(e, name, seeds) ==
    /\ e.ev = "run"
    /\ e.name = name
    /\ e.seeds = seeds
    /\ e.init = DEV_INIT
    /\ e.exec = NO_EXEC

\* the seed-<key> scratch areas the batch refresh of this registry creates
RefreshedSeedNames ==
    { seed_name(k) : k \in { j \in Registered : has_update_script(SEEDS, j) } }

(* C5: after a successful new(x) the work and the home directory of x      *)
(* exist; a new(x) called while either directory of x exists exits 1 and   *)
(* creates, deletes and changes nothing, refreshes no seed and launches    *)
(* nothing.                                                                *)
C5_NewRefusesExisting ==
    Cmd = "new" =>
        /\ last.status = "" => Target \in workDirs /\ Target \in homeDirs
        /\ (Target \in last.work0 \/ Target \in last.home0) =>
               last.status = EXIT1 /\ NoEffect

\* new(x) was refused for an x that had only a home directory
C5_Witness ==
    /\ Cmd = "new"
    /\ Target \in last.home0
    /\ Target \notin last.work0
    /\ last.status = EXIT1

(* C6: when purge(x) returns, neither directory of x exists, whichever of  *)
(* them existed before; with neither, it only warns and changes nothing;   *)
(* the directories of every other name are as they were; it launches       *)
(* nothing.                                                                *)
C6_PurgeRemovesBoth ==
    Cmd = "purge" =>
        /\ last.status = ""
        /\ Target \notin workDirs /\ Target \notin homeDirs
        /\ workDirs = last.work0 \ {Target}
        /\ homeDirs = last.home0 \ {Target}
        /\ \A n \in DOMAIN last.UPDATED0 :
               n # Target => n \in DOMAIN UPDATED /\ UPDATED[n] = last.UPDATED0[n]
        /\ (Target \notin last.work0 /\ Target \notin last.home0) =>
               /\ StoresUnchanged
               /\ Len(last.ev) = 1 /\ last.ev[1].ev = "warning"
        /\ Len(Launches) = 0

\* an x with only a home directory was purged while other directories exist
C6_Witness ==
    /\ Cmd = "purge"
    /\ Target \in last.home0
    /\ Target \notin last.work0
    /\ workDirs # {}
    /\ homeDirs # {}

(* C7, as the claim states it: reset(x) leaves the work directory of x as  *)
(* it was, only new and tmp create a work directory and only purge removes *)
(* one.                                                                    *)
C7_OnlyNewAndTmpCreateWorkDirs ==
    /\ Cmd = "reset" => (Target \in workDirs <=> Target \in last.work0)
    /\ workDirs \ last.work0 # {} => Cmd \in {"new", "tmp"}
    /\ last.work0 \ workDirs # {} => Cmd = "purge"

(* C7, amended: reset(x) leaves the work directory of x as it was, on      *)
(* success and on every failure.  A work directory is created only by      *)
(* new(x) for x, by tmp for the tmp-<candidate> it chose, and, for the     *)
(* scratch area seed-<key> of a seed with an updater, by the batch refresh *)
(* that new, tmp and reset without clean run.  Only purge(x) removes a     *)
(* work directory, that of x.                                              *)
C7_ResetKeepsWorkDir ==
    /\ Cmd = "reset" => (Target \in workDirs <=> Target \in last.work0)
    /\ \A n \in workDirs \ last.work0 :
           \/ Cmd = "new" /\ n = Target
           \/ Cmd = "tmp" /\ \E i \in 1..Len(last.args.cands) :
                                 n = tmp_name(last.args.cands[i])
           \/ /\ n \in RefreshedSeedNames
              /\ \/ Cmd \in {"new", "tmp"}
                 \/ Cmd = "reset" /\ ~last.args.clean
    /\ \A n \in last.work0 \ workDirs : Cmd = "purge" /\ n = Target

\* a successful reset(x) whose batch refresh created a seed's scratch area
C7_Witness ==
    /\ Cmd = "reset"
    /\ last.status = ""
    /\ Target \in last.work0
    /\ Target \in workDirs
    /\ workDirs \ last.work0 # {}

(* C8: reset(x) on a name that starts with seed-, also one whose work      *)
(* directory exists, or on a name without work directory exits 1 with no   *)
(* state change: the home directory stays, no seed is refreshed, nothing   *)
(* is launched.                                                            *)
C8_ResetRefusals ==
    (Cmd = "reset" /\ (startswith(Target, "seed-") \/ Target \notin last.work0)) =>
        last.status = EXIT1 /\ NoEffect

\* reset was refused for a seed- name whose two directories exist
C8_Witness ==
    /\ Cmd = "reset"
    /\ startswith(Target, "seed-")
    /\ Target \in last.work0
    /\ Target \in last.home0
    /\ Target \in homeDirs
    /\ last.status = EXIT1

(* C9: a reset that passes its two checks first deletes the home directory *)
(* if present.  With clean it does nothing else: the home directory is     *)
(* absent afterwards.  Without clean it then runs the batch refresh and,   *)
(* when that did not raise, the bootstrap launch with the given seeds, so  *)
(* that the home directory exists again.  Which of the two happens is      *)
(* decided by the clean argument of the call.                              *)
C9_ResetCleanOrRepopulate ==
    (Cmd = "reset" /\ ~startswith(Target, "seed-") /\ Target \in last.work0) =>
        LET ev == last.ev
            k == IF Target \in last.home0 THEN 1 ELSE 0
            n == Len(ev)
        IN  /\ n >= k
            /\ k = 1 => IsRmtreeHome(ev[1], Target)
            /\ \A i \in (k + 1)..n : ev[i].ev # "rmtree"
            /\ last.args.clean =>
                   /\ n = k
                   /\ last.status = ""
                   /\ Target \notin homeDirs
            /\ ~last.args.clean =>
                   /\ n > k /\ ev[k + 1].ev = "update_seeds"
                   /\ (Target \in homeDirs) <=>
                          IsBootstrap(ev[n], Target, last.args.seeds)
                   /\ last.status = "" => Target \in homeDirs
                   /\ Target \notin homeDirs =>
                          last.status \in {UNSATISFIABLE, "CalledProcessError"}
                   /\ (Satisfiable /\ AllLaunchesExitZero) => last.status = ""

\* a reset without clean deleted the home directory, refreshed a seed and
\* bootstrapped the home directory again
C9_Witness ==
    /\ Cmd = "reset"
    /\ ~last.args.clean
    /\ Target \in last.home0
    /\ last.status = ""
    /\ Len(Launches) = 3
    /\ Target \in homeDirs

(* C10: enter(x) and exec(x, command, args) on a name without work         *)
(* directory exit 1, launch nothing and create no home directory, also     *)
(* when a home directory of x exists; with the work directory they make    *)
(* exactly one launch, with no seeds and no init script.                   *)
C10_EnterExecNeedWorkDir ==
    Cmd \in {"enter", "exec"} =>
        IF Target \notin last.work0
        THEN last.status = EXIT1 /\ NoEffect
        ELSE /\ Len(Launches) = 1
             /\ Launches[1].name = Target
             /\ Launches[1].seeds = NO_SEEDS
             /\ Launches[1].init = NO_INIT
             /\ ~Launches[1].tar
             /\ Launches[1].exec =
                    (IF Cmd = "enter" THEN NO_EXEC
                     ELSE <<last.args.exec>> \o last.args.args)
             /\ workDirs = last.work0
             /\ homeDirs = last.home0 \cup {Target}
             /\ last.status = (IF Launches[1].rc = 0 THEN "" ELSE "CalledProcessError")

\* exec was refused for a name that has a home directory but no work directory
C10_Witness ==
    /\ Cmd = "exec"
    /\ Target \notin last.work0
    /\ Target \in last.home0
    /\ last.status = EXIT1
    /\ Target \in homeDirs

-----------------------------------------------------------------------------
(* The batch refresh inside new, tmp and reset *)

\* the places of the events of one kind in the log
Idx(kind) == { i \in 1..Len(last.ev) : last.ev[i].ev = kind }

\* the event at i is part of a seed refresh: a call of update_seed, or a
\* directory made or a launch in the scratch area of the seed that the
\* latest call of update_seed before it is for
BelongsToRefresh(i) ==
    \/ last.ev[i].ev = "update_seed"
    \/ /\ last.ev[i].ev \in {"mkdir", "run"}
       /\ \E j \in Idx("update_seed") :
              /\ j < i
              /\ \A k \in Idx("update_seed") : k <= j \/ k > i
              /\ last.ev[i].name = seed_name(last.ev[j].name)

\* the names the environment made by the invocation can have
EnvNames ==
    IF Cmd = "tmp" THEN { tmp_name(c) : c \in Range(last.args.cands) }
    ELSE {Target}

\* the event at i is the operation's own: the environment's directory made
\* (or found to exist) or a launch in the environment
BelongsToEnvironment(i) ==
    /\ last.ev[i].ev \in {"mkdir", "mkdir-failed", "run"}
    /\ last.ev[i].name \in EnvNames

(* C16: in new, tmp and reset without clean the batch refresh runs first:  *)
(* between the call of update_seeds and its return the log holds only seed *)
(* refreshes, in dependency order and for every key when it returns; the   *)
(* environment's work directory is made and the bootstrap launch starts    *)
(* only after the return, never when update_seeds raised, and nothing is   *)
(* refreshed after the return.  An invocation that does not call           *)
(* update_seeds makes no directory and no launch.                          *)
C16_RefreshCompletesBeforeBootstrap ==
    Cmd \in {"new", "tmp", "reset"} =>
        IF Idx("update_seeds") = {}
        THEN Idx("mkdir") = {} /\ Idx("run") = {}
        ELSE LET u == CHOOSE i \in Idx("update_seeds") : TRUE
                 n == Len(last.ev)
                 d == IF Idx("update_seeds returned") = {} THEN n + 1
                      ELSE CHOOSE i \in Idx("update_seeds returned") : TRUE
             IN  /\ Idx("update_seeds") = {u}
                 /\ Idx("update_seeds returned") \subseteq {d}
                 /\ \A i \in 1..(u - 1) : IsRmtreeHome(last.ev[i], Target)
                 /\ \A i \in (u + 1)..(d - 1) : BelongsToRefresh(i)
                 /\ \A i \in (d + 1)..n :
                        BelongsToEnvironment(i) /\ last.ev[i].ev # "update_seed"
                 /\ \A i, j \in 1..Len(Calls) : Calls[i] = Calls[j] => i = j
                 /\ \A i \in 1..Len(Calls) :
                        depends(SEEDS, Calls[i]) \subseteq { Calls[j] : j \in 1..(i - 1) }
                 /\ d <= n => Range(Calls) = Registered
                 /\ d > n => last.status \in {UNSATISFIABLE, "CalledProcessError"}
                 /\ last.status = "" =>
                        \E i \in (d + 1)..n :
                            \E name \in EnvNames :
                                IsBootstrap(last.ev[i], name, last.args.seeds)

\* new refreshed a seed with two launches, then made the work directory and
\* bootstrapped the environment with the default seeds
C16_Witness ==
    /\ Cmd = "new"
    /\ last.status = ""
    /\ last.args.seeds = DEFAULT_SEEDS
    /\ Len(Launches) = 3
    /\ Idx("update_seeds returned") # {}
    /\ \E i \in Idx("mkdir") : last.ev[i].root = "work" /\ last.ev[i].name = Target
    /\ IsBootstrap(last.ev[Len(last.ev)], Target, DEFAULT_SEEDS)

-----------------------------------------------------------------------------
(* tmp *)

\* the candidate at i was free when the invocation started
Free(i) ==
    /\ tmp_name(last.args.cands[i]) \notin last.work0
    /\ tmp_name(last.args.cands[i]) \notin last.home0

\* the first free candidate, if there is one
FirstFree ==
    { i \in 1..Len(last.args.cands) : Free(i) /\ \A j \in 1..(i - 1) : ~Free(j) }

\* the places in the log where a directory is made or deleted or a launch
\* is made
Effects == Idx("mkdir") \cup Idx("mkdir-failed") \cup Idx("rmtree") \cup Idx("run")

\* the environment of the first free candidate was made and entered
MadeFirstFree ==
    \E i \in FirstFree :
        LET name == tmp_name(last.args.cands[i])
            n == Len(Launches)
        IN  /\ name \in workDirs
            /\ name \in homeDirs
            /\ n >= 2
            /\ IsBootstrap(Launches[n - 1], name, last.args.seeds)
            /\ Launches[n].name = name
            /\ Launches[n].seeds = NO_SEEDS
            /\ Launches[n].init = NO_INIT
            /\ Launches[n].exec = NO_EXEC

(* C17: tmp makes the environment of the first candidate that has neither  *)
(* directory; it makes or deletes no directory of, and launches nothing    *)
(* in, an environment that existed before the call; and it raises the      *)
(* name-generation error only when every candidate was rejected.           *)
C17_TmpTouchesNoExistingEnvironment ==
    Cmd = "tmp" =>
        /\ last.status = "" => MadeFirstFree
        /\ \A e \in Effects :
               last.ev[e].name \notin last.work0 \cup last.home0
        /\ last.status = NAME_ERROR <=> FirstFree = {}

(* C17, amended: tmp makes the environment of the first candidate that has *)
(* neither directory.  Apart from the scratch areas seed-<key> of its      *)
(* batch refresh, which it makes when missing and launches into, existing  *)
(* or not, it makes nothing but that environment and launches into nothing *)
(* else; it deletes nothing; and it raises the name-generation error, with *)
(* no effect at all, exactly when every candidate was rejected.            *)
C17_TmpTakesFirstFreeCandidate ==
    Cmd = "tmp" =>
        /\ last.status = "" => MadeFirstFree
        /\ \A e \in Effects :
               \/ /\ last.ev[e].name \in RefreshedSeedNames
                  /\ Idx("update_seeds returned") = {}
                         \/ \E d \in Idx("update_seeds returned") : e < d
               \/ \E i \in FirstFree : last.ev[e].name = tmp_name(last.args.cands[i])
        /\ Idx("rmtree") = {}
        /\ last.work0 \subseteq workDirs
        /\ last.home0 \subseteq homeDirs
        /\ \A n \in (workDirs \ last.work0) \cup (homeDirs \ last.home0) :
               \/ n \in RefreshedSeedNames
               \/ \E i \in FirstFree : n = tmp_name(last.args.cands[i])
        /\ last.status = NAME_ERROR <=> FirstFree = {}
        /\ FirstFree = {} => NoEffect

\* the first candidate had a home directory only and was rejected; the
\* second was free and its environment was made
C17_Witness ==
    /\ Cmd = "tmp"
    /\ Len(last.args.cands) >= 2
    /\ tmp_name(last.args.cands[1]) \in last.home0 \ last.work0
    /\ FirstFree = {2}
    /\ last.status = ""
    /\ tmp_name(last.args.cands[1]) \notin workDirs
    /\ tmp_name(last.args.cands[2]) \in workDirs

-----------------------------------------------------------------------------
(* list *)

\* the names the last invocation printed
Listed == { last.ev[i].name : i \in { j \in 1..Len(last.ev) : last.ev[j].ev = "print" } }

(* C11: in every directory state and for every format, list reports        *)
(* exactly the names that appear under the work root or the home root.     *)
C11_ListReportsEitherRoot ==
    Cmd = "list" => Listed = last.work0 \cup last.home0

-----------------------------------------------------------------------------
(* run, step by step *)

\* how often the parent made the call `op` in the n-th call of run
NumLogged(n, op) ==
    Cardinality({ i \in 1..Len(proc.log) : proc.log[i] = [n |-> n, op |-> op] })

\* the n-th call of run is over
Finished(n) == n < proc.n \/ proc.pc \in {"done", "raised"}

(* C12: every call of run starts exactly one isolated process and is past  *)
(* bwrap.wait() only when that process has exited; when its exit status is *)
(* non-zero run raises CalledProcessError with that status and the name    *)
(* bwrap, and the caller stops there: the parent makes no further call,    *)
(* the launches the caller had still to make are not made, and the failed  *)
(* launch is not made again.                                               *)
C12_OneProcessAndFailureStops ==
    /\ \A n \in 1..proc.n :
           /\ NumLogged(n, "Popen bwrap") <= 1
           /\ Finished(n) => NumLogged(n, "Popen bwrap") = 1
    /\ proc.bwrap \in {"running", "exited"} =>
           proc.pc \in {"close_stdout", "wait_bwrap"}
    /\ (proc.bwrap = "reaped" /\ proc.bwrap_rc # 0) => proc.pc = "raised"
    /\ proc.pc = "raised" =>
           /\ proc.bwrap = "reaped"
           /\ proc.bwrap_rc # 0
           /\ proc.err = "CalledProcessError"
           /\ proc.err_rc = proc.bwrap_rc
           /\ proc.err_cmd = "bwrap"
           /\ proc.log[Len(proc.log)] = [n |-> proc.n, op |-> "wait bwrap"]
    /\ proc.pc = "done" => (proc.err = "" /\ Len(proc.calls) = 1)

\* the bootstrap launch of a seed refresh failed: the updater launch, still
\* to make, is not made
C12_Witness ==
    /\ proc.pc = "raised"
    /\ proc.n = 1
    /\ Len(proc.calls) = 2
    /\ proc.calls[2].init = update_script("b")
    /\ proc.err_rc = 1
    /\ NumLogged(1, "Popen bwrap") = 1
    /\ proc.seed = "exited"

(* C13: a launch fails when either of its children, the archiver or the    *)
(* isolated process, exits with a non-zero status: a run that returned had *)
(* both exit with status 0.                                                *)
C13_AnyChildFailureFails ==
    proc.pc = "done" =>
        /\ proc.bwrap_rc = 0
        /\ proc.seed = "reaped" => proc.seed_rc = 0

\* tar has more to write and the pipe is full
TarBlocked == proc.seed = "running" /\ proc.left > 0 /\ proc.fill = PipeCap

RunIsOver == proc.pc \in {"done", "raised"}

(* C14: when the isolated process has exited without reading the archive   *)
(* and tar is blocked on the full pipe, tar comes to an end; and every     *)
(* launch comes to an end, by returning or by raising (the children being  *)
(* scheduled and the isolated process terminating).                        *)
C14_LaunchDoesNotHang ==
    /\ (TarBlocked /\ proc.bwrap \in {"exited", "reaped"} /\ proc.nread = 0)
           ~> (proc.seed \in {"exited", "reaped"})
    /\ (~RunIsOver) ~> RunIsOver

\* the isolated process read nothing and exited with status 0; SIGPIPE ended
\* tar on the full pipe, and run returned
C14_Witness ==
    /\ proc.pc = "done"
    /\ proc.nread = 0
    /\ proc.bwrap_rc = 0
    /\ proc.seed = "reaped"
    /\ proc.seed_rc = SIGPIPE
    /\ proc.fill = PipeCap
    /\ proc.left > 0

\* in the log, every `first` of a call of run comes before every `then` of it
LoggedBefore(first, then) ==
    \A i, j \in 1..Len(proc.log) :
        ( /\ proc.log[i].op = first
          /\ proc.log[j].op = then
          /\ proc.log[i].n = proc.log[j].n ) => i < j

\* the children that are running
Alive == { c \in {"seed", "bwrap"} : proc[c] = "running" }

(* C15: in every launch the archiver, when seeds were requested, is        *)
(* started before the isolated process; a launch starts at most two        *)
(* children and none is left from an earlier launch of the caller while it *)
(* runs, so at most two are alive at a time; and the parent waits for the  *)
(* archiver only after its wait for the isolated process has returned.     *)
C15_ArchiverFirstAndWaitedLast ==
    /\ (proc.bwrap # "none" /\ Len(proc.calls[1].seeds) > 0) => proc.seed # "none"
    /\ (proc.seed # "none") => Len(proc.calls[1].seeds) > 0
    /\ LoggedBefore("Popen tar", "Popen bwrap")
    /\ \A n \in 1..proc.n :
           NumLogged(n, "Popen tar") + NumLogged(n, "Popen bwrap") <= 2
    /\ ~RunIsOver => proc.leaked = 0
    /\ LoggedBefore("wait bwrap", "wait tar")
    /\ \A n \in 1..proc.n : NumLogged(n, "wait tar") <= NumLogged(n, "wait bwrap")
    /\ proc.seed = "reaped" => proc.bwrap = "reaped"
    /\ proc.pc = "wait_seed" => proc.bwrap = "reaped"

\* both children of a launch with seeds are running, tar started first
C15_Witness ==
    /\ Alive = {"seed", "bwrap"}
    /\ proc.log = << [n |-> 1, op |-> "Popen tar"], [n |-> 1, op |-> "Popen bwrap"] >>
    /\ proc.pc = "wait_bwrap"

-----------------------------------------------------------------------------
(* The name generator *)

\* C18: whatever the word sources hold, random_names never raises, yields at
\* most one candidate per draw of its three loops and one more, and the last
\* candidate of the exhausted generator is the 32-letter one.
C18_GeneratorNeverRaises ==
    /\ proc.pc # "raised"
    /\ proc.yielded <= EffDraws + DictDraws + RandomDraws + 1
    /\ proc.pc = "done" => proc.word = "32 letters"

-----------------------------------------------------------------------------
(* One seed refresh *)

\* the launch of the seed's updater on seed-<key> with no seeds
IsUpdater(e, key) ==
    /\ e.name = seed_name(key)
    /\ e.seeds = NO_SEEDS
    /\ e.init = update_script(key)
    /\ e.exec = NO_EXEC

Mkdirs == SelectSeq(last.ev, LAMBDA e : e.ev \in {"mkdir", "mkdir-failed"})

(* C19: a call of update_seed for a seed without updater launches nothing  *)
(* and creates no directory.  A call that refreshes (launches at all)      *)
(* launches on seed-<key> only: first the bootstrap script with the seed's *)
(* depends as seeds, then the updater with no seeds, and nothing else; the *)
(* second launch is missing only when the first exited non-zero.  The      *)
(* marker is not read again: when both launches exit 0 the call returns,   *)
(* whether or not the updater touched the marker.                          *)
C19_RefreshIsBootstrapThenUpdater ==
    last.args.command = "update_seed" =>
        IF ~has_update_script(SEEDS, last.args.name)
        THEN /\ Len(Launches) = 0
             /\ Len(Mkdirs) = 0
             /\ workDirs = last.work0
             /\ homeDirs = last.home0
        ELSE Len(Launches) > 0 =>
             /\ Len(Launches) <= 2
             /\ IsBootstrap(Launches[1], seed_name(last.args.name),
                            ListOf(depends(SEEDS, last.args.name)))
             /\ (Len(Launches) = 2) <=> (Launches[1].rc = 0)
             /\ Len(Launches) = 2 => IsUpdater(Launches[2], last.args.name)
             /\ AllLaunchesExitZero <=> last.status = ""

\* both launches of a refresh exited 0, the updater left no marker behind,
\* and the call returned
C19_Witness ==
    /\ last.args.command = "update_seed"
    /\ has_update_script(SEEDS, last.args.name)
    /\ Len(Launches) = 2
    /\ AllLaunchesExitZero
    /\ IsUpdater(Launches[2], last.args.name)
    /\ seed_name(last.args.name) \notin DOMAIN UPDATED
    /\ last.status = ""

-----------------------------------------------------------------------------
(* The children left behind by run *)

(* C20: every call of run that started the archiver has waited for it when *)
(* the call is over, whether it returned or raised: no call leaves a child *)
(* that was started and not waited for.                                    *)
C20_ArchiverReapedWhenRunIsOver ==
    /\ \A n \in 1..proc.n :
           Finished(n) => NumLogged(n, "wait tar") = NumLogged(n, "Popen tar")
    /\ RunIsOver => unreaped(proc) = {}
    /\ proc.leaked = 0

-----------------------------------------------------------------------------
(* Two concurrent invocations of new *)

\* invocation i has come to an end
NewIsOver(i) == proc.p[i].pc \in {"returned", "exited", "raised"}

(* C21: of two interleaved new(x) for a name that is absent at first, at   *)
(* most one has its mkdir of the work directory succeed, and only that one *)
(* reaches the bootstrap launch of x; once one has made the directory the  *)
(* other ends in failure without launching, by the existence test or, when *)
(* it had passed the test, by the FileExistsError of its own mkdir (or by  *)
(* an error of its seed refresh before).                                   *)
C21_OnlyOneNewPassesMkdir ==
    /\ Cardinality({ i \in Invocations : proc.p[i].made }) <= 1
    /\ \A i \in Invocations :
           (proc.p[i].pc = "run" \/ proc.p[i].launched) => proc.p[i].made
    /\ \A i, j \in Invocations :
           (i # j /\ proc.p[i].made) =>
               /\ ~proc.p[j].launched
               /\ proc.p[j].pc # "returned"
               /\ (NewIsOver(j) /\ proc.p[j].at = "mkdir") =>
                      proc.p[j].err = "FileExistsError"

\* both passed the existence test; the first made the directory and
\* launched, the second failed at its mkdir
C21_Witness ==
    /\ proc.name = "x"
    /\ \A i \in Invocations : proc.p[i].passed
    /\ proc.p[1].made /\ proc.p[1].launched /\ proc.p[1].pc = "returned"
    /\ proc.p[2].pc = "raised"
    /\ proc.p[2].at = "mkdir"
    /\ proc.p[2].err = "FileExistsError"

=============================================================================
